---------------------------- MODULE Spec2Model ----------------------------
(***************************************************************************)
(* Model of mopidy_primare/primare_serial.py (PrimareTalker) and of the    *)
(* part of mopidy_primare/mixer.py that calls it.                          *)
(*                                                                         *)
(* Bytes are integers 0..255.  Python strings of hex digits ('8901',       *)
(* '03YY') are sequences of one-character strings: binascii.hexlify gives  *)
(* lower-case digits, '%02X' and the tables upper-case ones.               *)
(*                                                                         *)
(* Four specifications share the variables:                                *)
(*   SpecCodec  the frame codec on every bounded payload (_write and the   *)
(*              read cycle of _primare_reader);                            *)
(*   SpecFacade the facade operations, one call at a time, on every reply  *)
(*              the dispatcher can hand back;                              *)
(*   Spec       caller threads, the reader thread and the amplifier        *)
(*              running concurrently;                                      *)
(*   SpecLive   Spec with the fairness of the thread scheduler.            *)
(***************************************************************************)
EXTENDS Integers, Sequences, FiniteSets, TLC

----------------------------------------------------------------------------
(* Bounds of the model *)

\* longest payload the codec specification frames
MaxPayloadLen == 3

\* how far from the volume asked for the replies to volume_set range
ReplyWindow == 2

\* how many commands the caller threads send in all
MaxCommands == 3

\* the same under the fairness conditions of SpecLive
MaxLiveCommands == 1

\* how many steps past either end of the mixer scale volume_up() and
\* volume_down() are followed
MaxOvershoot == 1

\* longest stream of bytes that arrives at the serial port on its own
MaxStream == 5

----------------------------------------------------------------------------
(* Python helpers *)

Min(a, b) == IF a < b THEN a ELSE b
Max(a, b) == IF a > b THEN a ELSE b

\* s[lo:hi] for 0 <= lo, with hi >= 0 counted from the start and hi < 0
\* counted from the end, as Python slices a sequence
Slice(s, lo, hi) ==
    LET h == IF hi < 0 THEN Max(Len(s) + hi, 0) ELSE Min(hi, Len(s))
    IN  SubSeq(s, lo + 1, h)

\* s[lo:]
SliceFrom(s, lo) == SubSeq(s, lo + 1, Len(s))

\* s[-n:]
Last(s, n) == SubSeq(s, Max(Len(s) - n, 0) + 1, Len(s))

HexLower == <<"0","1","2","3","4","5","6","7","8","9","a","b","c","d","e","f">>
HexUpper == <<"0","1","2","3","4","5","6","7","8","9","A","B","C","D","E","F">>

\* the value of one hex digit of either case
HexVal(ch) == CHOOSE v \in 0..15 : HexLower[v + 1] = ch \/ HexUpper[v + 1] = ch

IsHexDigit(ch) == \E v \in 0..15 : HexLower[v + 1] = ch \/ HexUpper[v + 1] = ch

\* binascii.hexlify: two lower-case digits per byte
hexlify(bs) ==
    [i \in 1..(2 * Len(bs)) |->
        IF i % 2 = 1 THEN HexLower[(bs[(i + 1) \div 2] \div 16) + 1]
                     ELSE HexLower[(bs[i \div 2] % 16) + 1]]

\* binascii.unhexlify of an even-length string of hex digits
unhexlify(h) ==
    [i \in 1..(Len(h) \div 2) |-> 16 * HexVal(h[2 * i - 1]) + HexVal(h[2 * i])]

\* '%02X' % n for 0 <= n <= 255
Fmt02X(n) == <<HexUpper[(n \div 16) + 1], HexUpper[(n % 16) + 1]>>

\* int(h, 16) of a non-empty string of hex digits
RECURSIVE int16(_)
int16(h) ==
    IF Len(h) = 0 THEN 0
    ELSE 16 * int16(SubSeq(h, 1, Len(h) - 1)) + HexVal(h[Len(h)])

\* str.upper on a string of hex digits and placeholders
upper(h) ==
    [i \in 1..Len(h) |->
        IF \E v \in 0..15 : HexLower[v + 1] = h[i]
        THEN HexUpper[(CHOOSE v \in 0..15 : HexLower[v + 1] = h[i]) + 1]
        ELSE h[i]]

\* data.replace('YY', option)
RECURSIVE ReplaceYY(_, _)
ReplaceYY(data, option) ==
    IF Len(data) < 2 THEN data
    ELSE IF SubSeq(data, 1, 2) = <<"Y", "Y">>
         THEN option \o ReplaceYY(SliceFrom(data, 2), option)
         ELSE <<data[1]>> \o ReplaceYY(SliceFrom(data, 1), option)

----------------------------------------------------------------------------
(* Protocol constants *)

BYTE_STX == <<2>>
BYTE_WRITE == <<87>>
BYTE_READ == <<82>>
BYTE_DLE_ETX == <<16, 3>>

----------------------------------------------------------------------------
(* Frame codec *)

\* mutant of data_safe: the pairs are copied and no '10' is doubled
data_safe_undoubled(data) == SubSeq(data, 1, 2 * (Len(data) \div 2))

\* the loop of _write that doubles every '10' pair of the hex string; a
\* trailing odd character is not reached by range(0, len(data) - 1, 2)
RECURSIVE data_safe(_)
data_safe(data) ==
    IF Len(data) < 2 THEN <<>>
    ELSE LET pair == SubSeq(data, 1, 2)
         IN  (IF pair = <<"1", "0">> THEN <<"1", "0", "1", "0">> ELSE pair)
             \o data_safe(SliceFrom(data, 2))

\* the bytes _write hands to the serial port
binary_data(cmd_type, data) ==
    LET binary_variable == unhexlify(data_safe(data))
    IN  IF cmd_type = "W"
        THEN BYTE_STX \o BYTE_WRITE \o binary_variable \o BYTE_DLE_ETX
        ELSE BYTE_STX \o BYTE_READ \o binary_variable \o BYTE_DLE_ETX

\* a frame sent by the amplifier: <STX> <variable> [<value>] <DLE> <ETX>,
\* every <DLE> of the variable and value sent twice
ReplyFrame(payload) ==
    BYTE_STX \o unhexlify(data_safe(hexlify(payload))) \o BYTE_DLE_ETX

\* the end-of-line test of the read cycle: bytes_read[-leneol:] == eol
IsEol(bytes_read) == Last(bytes_read, Len(BYTE_DLE_ETX)) = BYTE_DLE_ETX

\* the un-escaping loop of _primare_reader over byte_string[POS_REPLY_DATA]:
\* pairs at even offsets, '1010' replaced by '10', then the odd last byte
RECURSIVE UnescapePairs(_)
UnescapePairs(byte_string) ==
    IF Len(byte_string) = 0 THEN <<>>
    ELSE IF Len(byte_string) = 1 THEN hexlify(byte_string)
    ELSE LET str_pairs == hexlify(SubSeq(byte_string, 1, 2))
         IN  (IF str_pairs = <<"1", "0", "1", "0">> THEN <<"1", "0">> ELSE str_pairs)
             \o UnescapePairs(SliceFrom(byte_string, 2))

\* variable_char of a read cycle: hexlify(byte_string[POS_REPLY_VAR])
variable_char(bytes_read) == hexlify(Slice(bytes_read, 1, 2))

\* data of a read cycle
reply_data_of(bytes_read) == UnescapePairs(Slice(bytes_read, 2, -2))


----------------------------------------------------------------------------
(* Command and reply tables *)

\* Python's None where an integer may stand (the volume, the source)
None == -1000

\* option=None of _send_command
NoOption == <<"None">>

Cmd(c, d, r, w) == [cmd |-> c, data |-> d, reply |-> r, wait |-> w]

PRIMARE_CMD ==
    [power_toggle |-> Cmd("W", <<"0","1","0","0">>, <<"0","1">>, TRUE),
     power_set |-> Cmd("W", <<"8","1","Y","Y">>, <<"0","1","Y","Y">>, FALSE),
     input_set |-> Cmd("W", <<"8","2","Y","Y">>, <<"0","2","Y","Y">>, TRUE),
     input_next |-> Cmd("W", <<"0","2","0","1">>, <<"0","2">>, TRUE),
     input_prev |-> Cmd("W", <<"0","2","F","F">>, <<"0","2">>, TRUE),
     volume_set |-> Cmd("W", <<"8","3","Y","Y">>, <<"0","3","Y","Y">>, TRUE),
     volume_up |-> Cmd("W", <<"0","3","0","1">>, <<"0","3">>, TRUE),
     volume_down |-> Cmd("W", <<"0","3","F","F">>, <<"0","3">>, TRUE),
     balance_adjust |-> Cmd("W", <<"0","4","Y","Y">>, <<"0","4">>, TRUE),
     balance_set |-> Cmd("W", <<"8","4","Y","Y">>, <<"0","4","Y","Y">>, TRUE),
     mute_toggle |-> Cmd("W", <<"0","9","0","0">>, <<"0","9">>, TRUE),
     mute_set |-> Cmd("W", <<"8","9","Y","Y">>, <<"0","9","Y","Y">>, TRUE),
     dim_cycle |-> Cmd("W", <<"0","A","0","0">>, <<"0","A">>, TRUE),
     dim_set |-> Cmd("W", <<"0","A","Y","Y">>, <<"0","A","Y","Y">>, TRUE),
     verbose_toggle |-> Cmd("W", <<"0","D","0","0">>, <<"0","D">>, TRUE),
     verbose_set |-> Cmd("W", <<"8","D","Y","Y">>, <<"0","D","Y","Y">>, TRUE),
     menu_toggle |-> Cmd("W", <<"0","E","0","1">>, <<"0","E">>, TRUE),
     menu_set |-> Cmd("W", <<"8","E","Y","Y">>, <<"0","E","Y","Y">>, TRUE),
     remote_cmd |-> Cmd("W", <<"0","F","Y","Y">>, <<"Y","Y">>, TRUE),
     ir_input_toggle |-> Cmd("W", <<"1","2","0","0">>, <<"1","2">>, TRUE),
     ir_input_set |-> Cmd("W", <<"9","2","Y","Y">>, <<"1","2","Y","Y">>, TRUE),
     recall_factory_settings |-> Cmd("R", <<"1","3","0","0">>, <<>>, FALSE),
     inputname_current_get |-> Cmd("R", <<"1","4","0","0">>, <<"1","4","Y","Y">>, TRUE),
     inputname_specific_get |-> Cmd("R", <<"9","4","Y","Y">>, <<"9","4","Y","Y">>, TRUE),
     manufacturer_get |-> Cmd("R", <<"1","5","0","0">>, <<"1","5">>, TRUE),
     modelname_get |-> Cmd("R", <<"1","6","0","0">>, <<"1","6">>, TRUE),
     swversion_get |-> Cmd("R", <<"1","7","0","0">>, <<"1","7">>, TRUE)]

\* the module-level reply table as first loaded
PRIMARE_REPLY_initial ==
    [k \in {<<"0","1">>, <<"0","2">>, <<"0","3">>, <<"0","4">>, <<"0","9">>,
            <<"0","A">>, <<"0","D">>, <<"0","E">>, <<"1","2">>, <<"1","3">>,
            <<"1","4">>, <<"1","5">>, <<"1","6">>, <<"1","7">>} |-> <<>>]

\* number of volume levels of the amplifier
VOLUME_LEVELS == 79

\* the hex string _send_command hands to _write
command_data(variable, option) ==
    IF option # NoOption
    THEN ReplaceYY(PRIMARE_CMD[variable].data, option)
    ELSE PRIMARE_CMD[variable].data

\* the frame _send_command(variable, option) writes
command_frame(variable, option) ==
    binary_data(PRIMARE_CMD[variable].cmd, command_data(variable, option))

----------------------------------------------------------------------------
(* Facade: what each operation does with the reply of _send_command *)

\* truth value of an integer or None in an if
Truthy(v) == v # None /\ v # 0

\* int(round(volume * VOLUME_LEVELS / 100.0)) for volume >= 0: round() takes
\* a half away from zero
target_primare_volume(volume) == (2 * volume * VOLUME_LEVELS + 100) \div 200

\* mutant of volume_set_confirmed: a reply of one level less is refused
volume_set_confirmed_exact(volume, reply) ==
    /\ reply # <<>>
    /\ int16(reply) = target_primare_volume(volume)

\* the condition of volume_set under which the reply confirms the volume
volume_set_confirmed(volume, reply) ==
    /\ reply # <<>>
    /\ \/ int16(reply) = target_primare_volume(volume)
       \/ int16(reply) = target_primare_volume(volume) - 1

\* mutant of mute_value: the test of mute is inverted
mute_value_inverted(mute) == IF mute = TRUE THEN <<"0","0">> ELSE <<"0","1">>

\* the option mute_set sends
mute_value(mute) == IF mute = TRUE THEN <<"0","1">> ELSE <<"0","0">>

\* the condition of mute_set and mute_toggle: reply == '01'
mute_reply_is_01(reply) == reply = <<"0","1">>

\* what mute_set and mute_toggle store in _mute_state for a reply
mute_state_after(mute_state, reply) == IF mute_reply_is_01(reply) THEN TRUE ELSE FALSE

\* what mute_set and mute_toggle return for a reply
mute_return(reply) == IF mute_reply_is_01(reply) THEN "True" ELSE "False"

----------------------------------------------------------------------------
(* State *)

VARIABLES
    \* the codec specification: one payload taken through _write and through
    \* a read cycle of _primare_reader
    codec_phase, codec_payload, codec_cmd_type, codec_out, codec_wire,
    codec_bytes_read, codec_variable_char, codec_data

codec_vars == <<codec_phase, codec_payload, codec_cmd_type, codec_out,
                codec_wire, codec_bytes_read, codec_variable_char, codec_data>>

VARIABLES
    \* fields of PrimareTalker
    _volume, _mute_state, _source,
    \* the facade specification: the operation running (f_pc = "idle" when
    \* none), the cached state when it was called, the calls of
    \* _send_command it has made, the last reply it got, what it returned
    f_pc, f_op, f_before, f_sent, f_reply, f_ret

facade_vars == <<_volume, _mute_state, _source,
                 f_pc, f_op, f_before, f_sent, f_reply, f_ret>>

VARIABLES
    \* fields of PrimareTalker and the module-level reply table
    _alive, _write_lock, _read_event, PRIMARE_REPLY,
    \* caller threads: where each is in _send_command (or stop_reader), what
    \* it sends and what it is about to return
    pc, call, reply_data,
    \* the reader thread: where it is in _primare_reader and its bytes_read
    reader_pc, bytes_read,
    \* the serial line and the amplifier: frames written and not yet taken
    \* by the amplifier, bytes of the amplifier that have arrived and are
    \* not yet read, and the amplifier's own mute flag
    to_device, serial_in, device_mute,
    \* bookkeeping: the data the amplifier sent in reply to the command each
    \* caller is sending, and the number of commands still to be sent
    produced, remaining,
    \* the bytes on their way to the serial port that have not arrived yet
    line,
    \* bookkeeping: whether the reader has stored a read cycle in the reply
    \* table since each caller's last write
    decoded_since

thread_vars == <<_alive, _write_lock, _read_event, PRIMARE_REPLY,
                 pc, call, reply_data, reader_pc, bytes_read,
                 to_device, serial_in, device_mute,
                 produced, remaining, line, decoded_since>>

vars == <<codec_vars, facade_vars, thread_vars>>

----------------------------------------------------------------------------
(* The codec specification *)

\* the bytes payloads are made of: <DLE>, <ETX>, the variable code of mute
\* and a plain value byte
CodecBytes == {16, 3, 9, 0}

RECURSIVE SeqsUpTo(_, _)
SeqsUpTo(S, n) ==
    IF n = 0 THEN {<<>>}
    ELSE LET shorter == SeqsUpTo(S, n - 1)
         IN  shorter \cup {Append(s, x) : s \in {t \in shorter : Len(t) = n - 1}, x \in S}

CodecStart ==
    /\ codec_phase = "start"
    /\ codec_payload \in SeqsUpTo(CodecBytes, MaxPayloadLen)
    /\ codec_cmd_type \in {"W", "R"}
    /\ codec_out = <<>>
    /\ codec_wire = <<>>
    /\ codec_bytes_read = <<>>
    /\ codec_variable_char = <<>>
    /\ codec_data = <<>>

\* the codec variables in the specifications that do not use them
CodecIdle ==
    /\ codec_phase = "off"
    /\ codec_payload = <<>>
    /\ codec_cmd_type = "W"
    /\ codec_out = <<>>
    /\ codec_wire = <<>>
    /\ codec_bytes_read = <<>>
    /\ codec_variable_char = <<>>
    /\ codec_data = <<>>

\* _write(cmd_type, data) with data the hex string of the payload
CodecWrite ==
    /\ codec_phase = "start"
    /\ codec_out' = binary_data(codec_cmd_type, hexlify(codec_payload))
    /\ codec_phase' = "written"
    /\ UNCHANGED <<codec_payload, codec_cmd_type, codec_wire, codec_bytes_read,
                   codec_variable_char, codec_data>>
    /\ UNCHANGED <<facade_vars, thread_vars>>

\* the amplifier frames the same payload as a reply and sends it
CodecReply ==
    /\ codec_phase = "written"
    /\ codec_wire' = ReplyFrame(codec_payload)
    /\ codec_bytes_read' = <<>>
    /\ codec_phase' = "reading"
    /\ UNCHANGED <<codec_payload, codec_cmd_type, codec_out,
                   codec_variable_char, codec_data>>
    /\ UNCHANGED <<facade_vars, thread_vars>>

\* one pass of the inner loop of _primare_reader with a byte available
CodecReadByte ==
    /\ codec_phase = "reading"
    /\ codec_wire # <<>>
    /\ codec_bytes_read' = Append(codec_bytes_read, Head(codec_wire))
    /\ codec_wire' = Tail(codec_wire)
    /\ codec_phase' = IF IsEol(codec_bytes_read') THEN "eol" ELSE "reading"
    /\ UNCHANGED <<codec_payload, codec_cmd_type, codec_out,
                   codec_variable_char, codec_data>>
    /\ UNCHANGED <<facade_vars, thread_vars>>

\* the decoding of the read cycle, once the inner loop has left
CodecDecode ==
    /\ codec_phase = "eol"
    /\ codec_variable_char' = variable_char(codec_bytes_read)
    /\ codec_data' = reply_data_of(codec_bytes_read)
    /\ codec_phase' = "decoded"
    /\ UNCHANGED <<codec_payload, codec_cmd_type, codec_out, codec_wire,
                   codec_bytes_read>>
    /\ UNCHANGED <<facade_vars, thread_vars>>

CodecNext == CodecWrite \/ CodecReply \/ CodecReadByte \/ CodecDecode

----------------------------------------------------------------------------
(* The facade specification: construction, then one operation at a time *)

\* upper end of the volume scale of the mixer
MaxPercent == 100

\* the input sources the mixer may be configured with
Sources == {None, 2}

\* what _send_command(variable, option) can return: the reply template of
\* a command that does not wait, else whatever the reply table holds when
\* the caller is woken (nothing, or the hex string of a reply)
PossibleReplies(variable, option) ==
    IF ~PRIMARE_CMD[variable].wait THEN {PRIMARE_CMD[variable].reply}
    ELSE IF variable = "volume_set"
         THEN {<<>>} \cup {hexlify(<<v>>) :
                  v \in {w \in (int16(option) - ReplyWindow)..(int16(option) + ReplyWindow) :
                           w >= 0 /\ w <= 255}}
    ELSE IF variable \in {"volume_up", "volume_down"}
         THEN {<<>>} \cup {hexlify(<<v>>) : v \in 0..VOLUME_LEVELS}
    ELSE IF variable \in {"mute_set", "mute_toggle"}
         THEN {<<>>, <<"0","0">>, <<"0","1">>}
    ELSE {<<>>, <<"0","1">>}

\* the record of one call of _send_command: what it was asked and the frame
\* it wrote
Sent(variable, option) ==
    [variable |-> variable, option |-> option,
     frame |-> command_frame(variable, option)]

\* the thread start of _setup, recorded among the calls
ThreadStarted ==
    [variable |-> "thread_read.start", option |-> NoOption, frame |-> <<>>]

NoOp == [name |-> "", arg |-> None]

\* the facade variables in the specifications that do not use them
FacadeOff ==
    /\ _volume = None
    /\ _mute_state = FALSE
    /\ _source = None
    /\ f_pc = "off"
    /\ f_op = NoOp
    /\ f_before = [volume |-> None, mute |-> FALSE]
    /\ f_sent = <<>>
    /\ f_reply = <<>>
    /\ f_ret = "None"

\* PrimareTalker.__init__ up to the call of _setup, for every configured
\* volume (None or a percent) and source
FacadeStart ==
    \E volume \in {None} \cup 0..MaxPercent :
        /\ _volume = (IF Truthy(volume) THEN volume ELSE None)
        /\ _mute_state = FALSE
        /\ _source \in Sources
        /\ f_pc = "_setup"
        /\ f_op = [name |-> "__init__", arg |-> volume]
        /\ f_before = [volume |-> None, mute |-> FALSE]
        /\ f_sent = <<>>
        /\ f_reply = <<>>
        /\ f_ret = "None"

\* _send_command(variable, option) returning reply
send_command(variable, option, reply) ==
    /\ reply \in PossibleReplies(variable, option)
    /\ f_sent' = Append(f_sent, Sent(variable, option))
    /\ f_reply' = reply

\* the body of volume_set(volume) for a reply
volume_set_body(volume, reply) ==
    /\ send_command("volume_set", Fmt02X(target_primare_volume(volume)), reply)
    /\ _volume' = IF volume_set_confirmed(volume, reply) THEN volume ELSE _volume
    /\ f_ret' = IF volume_set_confirmed(volume, reply) THEN "True" ELSE "False"

\* the body of mute_set(mute) for a reply
mute_set_body(mute, reply) ==
    /\ send_command("mute_set", mute_value(mute), reply)
    /\ _mute_state' = mute_state_after(_mute_state, reply)
    /\ f_ret' = mute_return(reply)

\* _setup: the reader thread is started
Setup ==
    /\ f_pc = "_setup"
    /\ f_sent' = Append(f_sent, ThreadStarted)
    /\ f_pc' = "verbose_set"
    /\ UNCHANGED <<_volume, _mute_state, _source, f_op, f_before, f_reply, f_ret>>
    /\ UNCHANGED <<codec_vars, thread_vars>>

\* _set_device_to_known_state: self.verbose_set(True)
StartupVerboseSet ==
    /\ f_pc = "verbose_set"
    /\ \E reply \in PossibleReplies("verbose_set", <<"0","1">>) :
          send_command("verbose_set", <<"0","1">>, reply)
    /\ f_pc' = "power_on"
    /\ UNCHANGED <<_volume, _mute_state, _source, f_op, f_before, f_ret>>
    /\ UNCHANGED <<codec_vars, thread_vars>>

\* self.power_on(), and the test of self._source after the sleep
StartupPowerOn ==
    /\ f_pc = "power_on"
    /\ \E reply \in PossibleReplies("power_set", <<"0","1">>) :
          send_command("power_set", <<"0","1">>, reply)
    /\ f_pc' = IF _source # None THEN "input_set" ELSE "mute_set"
    /\ UNCHANGED <<_volume, _mute_state, _source, f_op, f_before, f_ret>>
    /\ UNCHANGED <<codec_vars, thread_vars>>

\* self.input_set(self._source), up to the test of its reply
StartupInputSet ==
    /\ f_pc = "input_set"
    /\ \E reply \in PossibleReplies("input_set", Fmt02X(_source)) :
          /\ send_command("input_set", Fmt02X(_source), reply)
          /\ f_pc' = IF reply # <<>> THEN "input_set_name" ELSE "mute_set"
    /\ UNCHANGED <<_volume, _mute_state, _source, f_op, f_before, f_ret>>
    /\ UNCHANGED <<codec_vars, thread_vars>>

\* the inputname_current_get() of input_set
StartupInputName ==
    /\ f_pc = "input_set_name"
    /\ \E reply \in PossibleReplies("inputname_current_get", NoOption) :
          send_command("inputname_current_get", NoOption, reply)
    /\ f_pc' = "mute_set"
    /\ UNCHANGED <<_volume, _mute_state, _source, f_op, f_before, f_ret>>
    /\ UNCHANGED <<codec_vars, thread_vars>>

\* self.mute_set(False), and the test of self._volume
StartupMuteSet ==
    /\ f_pc = "mute_set"
    /\ \E reply \in PossibleReplies("mute_set", mute_value(FALSE)) :
          mute_set_body(FALSE, reply)
    /\ f_pc' = IF Truthy(_volume) THEN "volume_set" ELSE "volume_down"
    /\ UNCHANGED <<_volume, _source, f_op, f_before>>
    /\ UNCHANGED <<codec_vars, thread_vars>>

\* self.volume_set(self._volume)
StartupVolumeSet ==
    /\ f_pc = "volume_set"
    /\ \E reply \in PossibleReplies("volume_set",
                                    Fmt02X(target_primare_volume(_volume))) :
          volume_set_body(_volume, reply)
    /\ f_pc' = "manufacturer_get"
    /\ UNCHANGED <<_mute_state, _source, f_op, f_before>>
    /\ UNCHANGED <<codec_vars, thread_vars>>

\* _get_current_volume: the volume_down and the test of its reply
StartupVolumeDown ==
    /\ f_pc = "volume_down"
    /\ \E reply \in PossibleReplies("volume_down", NoOption) :
          /\ send_command("volume_down", NoOption, reply)
          /\ IF reply # <<>>
             THEN f_pc' = "volume_up" /\ UNCHANGED _volume
             ELSE f_pc' = "manufacturer_get" /\ _volume' = 0
    /\ UNCHANGED <<_mute_state, _source, f_op, f_before, f_ret>>
    /\ UNCHANGED <<codec_vars, thread_vars>>

\* _get_current_volume: the volume_up, and the assignment of what it returns
StartupVolumeUp ==
    /\ f_pc = "volume_up"
    /\ \E reply \in PossibleReplies("volume_up", NoOption) :
          /\ send_command("volume_up", NoOption, reply)
          /\ _volume' = IF reply # <<>> THEN int16(reply) ELSE 0
    /\ f_pc' = "manufacturer_get"
    /\ UNCHANGED <<_mute_state, _source, f_op, f_before, f_ret>>
    /\ UNCHANGED <<codec_vars, thread_vars>>

\* mutant of InfoReads: the software version is read before the model name
InfoReads_reordered == <<"manufacturer_get", "swversion_get", "modelname_get",
                         "inputname_current_get">>

\* the order of the reads of _print_device_info
InfoReads == <<"manufacturer_get", "modelname_get", "swversion_get",
               "inputname_current_get">>

\* _print_device_info: one of its four reads
StartupInfo ==
    /\ \E i \in 1..Len(InfoReads) :
          /\ f_pc = InfoReads[i]
          /\ \E reply \in PossibleReplies(InfoReads[i], NoOption) :
                send_command(InfoReads[i], NoOption, reply)
          /\ f_pc' = IF i < Len(InfoReads) THEN InfoReads[i + 1] ELSE "done"
    /\ f_ret' = "None"
    /\ UNCHANGED <<_volume, _mute_state, _source, f_op, f_before>>
    /\ UNCHANGED <<codec_vars, thread_vars>>

\* the level of the amplifier after the commands sent, from the level it
\* had: volume_down and volume_up move it one level and stop at the ends of
\* 0..VOLUME_LEVELS, volume_set puts it at the level asked for
RECURSIVE DeviceLevelAfter(_, _)
DeviceLevelAfter(level, sent) ==
    IF sent = <<>> THEN level
    ELSE LET m == Head(sent)
             next == IF m.variable = "volume_down" THEN Max(0, level - 1)
                     ELSE IF m.variable = "volume_up" THEN Min(VOLUME_LEVELS, level + 1)
                     ELSE IF m.variable = "volume_set" THEN int16(m.option)
                     ELSE level
         IN  DeviceLevelAfter(next, Tail(sent))

\* a caller starts an operation: the cached state as it finds it
Called(name, arg) ==
    /\ f_pc = "idle"
    /\ f_op' = [name |-> name, arg |-> arg]
    /\ f_before' = [volume |-> _volume, mute |-> _mute_state]
    /\ f_pc' = "done"

\* volume_set(volume) for a percent
volume_set ==
    /\ \E volume \in 0..MaxPercent :
          /\ Called("volume_set", volume)
          /\ \E reply \in PossibleReplies("volume_set",
                                          Fmt02X(target_primare_volume(volume))) :
                volume_set_body(volume, reply)
    /\ UNCHANGED <<_mute_state, _source>>
    /\ UNCHANGED <<codec_vars, thread_vars>>

\* mute_set(mute)
mute_set ==
    /\ \E mute \in BOOLEAN :
          /\ Called("mute_set", mute)
          /\ \E reply \in PossibleReplies("mute_set", mute_value(mute)) :
                mute_set_body(mute, reply)
    /\ UNCHANGED <<_volume, _source>>
    /\ UNCHANGED <<codec_vars, thread_vars>>

\* mute_toggle()
mute_toggle ==
    /\ Called("mute_toggle", None)
    /\ \E reply \in PossibleReplies("mute_toggle", NoOption) :
          /\ send_command("mute_toggle", NoOption, reply)
          /\ _mute_state' = mute_state_after(_mute_state, reply)
          /\ f_ret' = mute_return(reply)
    /\ UNCHANGED <<_volume, _source>>
    /\ UNCHANGED <<codec_vars, thread_vars>>

\* the body of volume_up() (step = 1) and volume_down() (step = -1) for a
\* reply: self._volume += step raises TypeError while the volume is None,
\* and self._volume.get() raises AttributeError whatever the volume is
volume_step_body(variable, step, reply) ==
    /\ send_command(variable, NoOption, reply)
    /\ IF reply # <<>> /\ _volume = None
       THEN f_ret' = "TypeError" /\ UNCHANGED _volume
       ELSE /\ f_ret' = "AttributeError"
            /\ _volume' = IF reply # <<>> THEN _volume + step ELSE _volume

\* volume_up()
volume_up ==
    /\ _volume = None \/ _volume < MaxPercent + MaxOvershoot
    /\ Called("volume_up", None)
    /\ \E reply \in PossibleReplies("volume_up", NoOption) :
          volume_step_body("volume_up", 1, reply)
    /\ UNCHANGED <<_mute_state, _source>>
    /\ UNCHANGED <<codec_vars, thread_vars>>

\* volume_down()
volume_down ==
    /\ _volume = None \/ _volume > - MaxOvershoot
    /\ Called("volume_down", None)
    /\ \E reply \in PossibleReplies("volume_down", NoOption) :
          volume_step_body("volume_down", -1, reply)
    /\ UNCHANGED <<_mute_state, _source>>
    /\ UNCHANGED <<codec_vars, thread_vars>>

\* mute_get()
mute_get == _mute_state

\* volume_get()
volume_get == _volume

\* the operation (or the construction) has returned to its caller
Returned ==
    /\ f_pc = "done"
    /\ f_pc' = "idle"
    /\ f_op' = NoOp
    /\ f_before' = [volume |-> None, mute |-> FALSE]
    /\ f_sent' = <<>>
    /\ f_reply' = <<>>
    /\ f_ret' = "None"
    /\ UNCHANGED <<_volume, _mute_state, _source>>
    /\ UNCHANGED <<codec_vars, thread_vars>>

FacadeNext ==
    \/ Setup \/ StartupVerboseSet \/ StartupPowerOn \/ StartupInputSet
    \/ StartupInputName \/ StartupMuteSet \/ StartupVolumeSet
    \/ StartupVolumeDown \/ StartupVolumeUp \/ StartupInfo
    \/ volume_set \/ volume_up \/ volume_down \/ mute_set \/ mute_toggle
    \/ Returned

----------------------------------------------------------------------------
(* Threads: callers of _send_command, the reader and the amplifier *)

\* the threads that call the facade
Callers == {1, 2}

\* the write lock is free
NoThread == 0

\* no reply produced yet for the command a caller is sending
NotYet == <<"-">>

NoCall == [variable |-> "", option |-> NoOption, op |-> "", id |-> 0]

\* the calls of _send_command the callers make: power_on(), mute_set(True),
\* mute_toggle()
Calls == {[variable |-> "power_set", option |-> <<"0","1">>],
          [variable |-> "mute_set", option |-> <<"0","1">>],
          [variable |-> "mute_toggle", option |-> NoOption]}

\* PRIMARE_REPLY[key] = value
Put(table, key, value) ==
    [k \in DOMAIN table \cup {key} |-> IF k = key THEN value ELSE table[k]]

\* the thread variables in the specifications that do not use them
ThreadOff ==
    /\ _alive = TRUE
    /\ _write_lock = NoThread
    /\ _read_event = FALSE
    /\ PRIMARE_REPLY = PRIMARE_REPLY_initial
    /\ pc = [c \in Callers |-> "off"]
    /\ call = [c \in Callers |-> NoCall]
    /\ reply_data = [c \in Callers |-> <<>>]
    /\ reader_pc = "off"
    /\ bytes_read = <<>>
    /\ to_device = <<>>
    /\ serial_in = <<>>
    /\ device_mute = FALSE
    /\ produced = [c \in Callers |-> NotYet]
    /\ remaining = 0
    /\ line = <<>>
    /\ decoded_since = [c \in Callers |-> FALSE]

\* the fields set by __init__ and the reader thread just started by _setup,
\* with no command written yet; the callers have n commands to send and
\* the bytes of stream are on their way to the serial port
ThreadStart(n, stream) ==
    /\ _alive = TRUE
    /\ _write_lock = NoThread
    /\ _read_event = FALSE
    /\ PRIMARE_REPLY = PRIMARE_REPLY_initial
    /\ pc = [c \in Callers |-> "idle"]
    /\ call = [c \in Callers |-> NoCall]
    /\ reply_data = [c \in Callers |-> <<>>]
    /\ reader_pc = "loop"
    /\ bytes_read = <<>>
    /\ to_device = <<>>
    /\ serial_in = <<>>
    /\ device_mute = FALSE
    /\ produced = [c \in Callers |-> NotYet]
    /\ remaining = n
    /\ line = stream
    /\ decoded_since = [c \in Callers |-> FALSE]

\* threading.Event.set(): the flag is set and every thread blocked in wait()
\* is woken
EventSetBy(who, next) ==
    /\ _read_event' = TRUE
    /\ pc' = [c \in Callers |->
                IF c = who THEN next
                ELSE IF pc[c] = "blocked" THEN "read" ELSE pc[c]]

\* a facade method calls _send_command(variable, option): reply_data = ''
Invoke(c) ==
    /\ pc[c] = "idle"
    /\ remaining > 0
    /\ \E k \in Calls :
          call' = [call EXCEPT ![c] = [variable |-> k.variable, option |-> k.option,
                                       op |-> "send", id |-> remaining]]
    /\ remaining' = remaining - 1
    /\ reply_data' = [reply_data EXCEPT ![c] = <<>>]
    /\ produced' = [produced EXCEPT ![c] = NotYet]
    /\ pc' = [pc EXCEPT ![c] = "lock"]
    /\ UNCHANGED <<_alive, _write_lock, _read_event, PRIMARE_REPLY, reader_pc,
                   bytes_read, to_device, serial_in, device_mute,
                   line, decoded_since>>
    /\ UNCHANGED <<codec_vars, facade_vars>>

\* stop_reader: self._alive = False, then _send_command('verbose_toggle')
stop_reader(c) ==
    /\ pc[c] = "idle"
    /\ remaining > 0
    /\ _alive
    /\ _alive' = FALSE
    /\ call' = [call EXCEPT ![c] = [variable |-> "verbose_toggle", option |-> NoOption,
                                    op |-> "stop_reader", id |-> remaining]]
    /\ remaining' = remaining - 1
    /\ reply_data' = [reply_data EXCEPT ![c] = <<>>]
    /\ produced' = [produced EXCEPT ![c] = NotYet]
    /\ pc' = [pc EXCEPT ![c] = "lock"]
    /\ UNCHANGED <<_write_lock, _read_event, PRIMARE_REPLY, reader_pc,
                   bytes_read, to_device, serial_in, device_mute,
                   line, decoded_since>>
    /\ UNCHANGED <<codec_vars, facade_vars>>

\* mutant of lock_is_free: the lock is never found taken
lock_is_free_always(c) == TRUE

\* threading.Lock: acquire goes on only when no thread holds the lock
lock_is_free(c) == _write_lock = NoThread

\* with self._write_lock: the lock is acquired
Acquire(c) ==
    /\ pc[c] = "lock"
    /\ lock_is_free(c)
    /\ _write_lock' = c
    /\ pc' = [pc EXCEPT ![c] = "write"]
    /\ UNCHANGED <<_alive, _read_event, PRIMARE_REPLY, call, reply_data, reader_pc,
                   bytes_read, to_device, serial_in, device_mute,
                   produced, remaining, line, decoded_since>>
    /\ UNCHANGED <<codec_vars, facade_vars>>

\* self._write(command, data), and the test of the wait flag; a command that
\* does not wait takes its reply template as reply_data
Write(c) ==
    /\ pc[c] = "write"
    /\ to_device' = Append(to_device,
                           [frame |-> command_frame(call[c].variable, call[c].option),
                            by |-> c, id |-> call[c].id])
    /\ IF PRIMARE_CMD[call[c].variable].wait = TRUE
       THEN /\ pc' = [pc EXCEPT ![c] = "wait"]
            /\ UNCHANGED reply_data
       ELSE /\ pc' = [pc EXCEPT ![c] = "set"]
            /\ reply_data' = [reply_data EXCEPT ![c] = PRIMARE_CMD[call[c].variable].reply]
    /\ decoded_since' = [decoded_since EXCEPT ![c] = FALSE]
    /\ UNCHANGED <<_alive, _write_lock, _read_event, PRIMARE_REPLY, call, reader_pc,
                   bytes_read, serial_in, device_mute, produced, remaining, line>>
    /\ UNCHANGED <<codec_vars, facade_vars>>

\* self._read_event.wait(): returns at once when the flag is set, else blocks
\* until a set()
WaitEvent(c) ==
    /\ pc[c] = "wait"
    /\ pc' = [pc EXCEPT ![c] = IF _read_event THEN "read" ELSE "blocked"]
    /\ UNCHANGED <<_alive, _write_lock, _read_event, PRIMARE_REPLY, call, reply_data,
                   reader_pc, bytes_read, to_device, serial_in,
                   device_mute, produced, remaining, line, decoded_since>>
    /\ UNCHANGED <<codec_vars, facade_vars>>

\* reply_data = PRIMARE_REPLY[reply[0:2]]; a key the table does not hold
\* raises KeyError and the with statement releases the lock
ReadReply(c) ==
    /\ pc[c] = "read"
    /\ LET key == Slice(PRIMARE_CMD[call[c].variable].reply, 0, 2)
       IN  IF key \in DOMAIN PRIMARE_REPLY
           THEN /\ reply_data' = [reply_data EXCEPT ![c] = PRIMARE_REPLY[key]]
                /\ pc' = [pc EXCEPT ![c] = "clear"]
                /\ UNCHANGED _write_lock
           ELSE /\ pc' = [pc EXCEPT ![c] = "raised"]
                /\ _write_lock' = NoThread
                /\ UNCHANGED reply_data
    /\ UNCHANGED <<_alive, _read_event, PRIMARE_REPLY, call, reader_pc, bytes_read,
                   to_device, serial_in, device_mute, produced, remaining, line, decoded_since>>
    /\ UNCHANGED <<codec_vars, facade_vars>>

\* PRIMARE_REPLY[reply] = ''
ClearReply(c) ==
    /\ pc[c] = "clear"
    /\ PRIMARE_REPLY' = Put(PRIMARE_REPLY, PRIMARE_CMD[call[c].variable].reply, <<>>)
    /\ pc' = [pc EXCEPT ![c] = "set"]
    /\ UNCHANGED <<_alive, _write_lock, _read_event, call, reply_data, reader_pc,
                   bytes_read, to_device, serial_in, device_mute,
                   produced, remaining, line, decoded_since>>
    /\ UNCHANGED <<codec_vars, facade_vars>>

\* self._read_event.set() at the end of _send_command
SendEventSet(c) ==
    /\ pc[c] = "set"
    /\ EventSetBy(c, "unset")
    /\ UNCHANGED <<_alive, _write_lock, PRIMARE_REPLY, call, reply_data, reader_pc,
                   bytes_read, to_device, serial_in, device_mute,
                   produced, remaining, line, decoded_since>>
    /\ UNCHANGED <<codec_vars, facade_vars>>

\* self._read_event.clear() at the end of _send_command
SendEventClear(c) ==
    /\ pc[c] = "unset"
    /\ _read_event' = FALSE
    /\ pc' = [pc EXCEPT ![c] = "release"]
    /\ UNCHANGED <<_alive, _write_lock, PRIMARE_REPLY, call, reply_data, reader_pc,
                   bytes_read, to_device, serial_in, device_mute,
                   produced, remaining, line, decoded_since>>
    /\ UNCHANGED <<codec_vars, facade_vars>>

\* the end of the with statement: the lock is released
Release(c) ==
    /\ pc[c] = "release"
    /\ _write_lock' = NoThread
    /\ pc' = [pc EXCEPT ![c] = "return"]
    /\ UNCHANGED <<_alive, _read_event, PRIMARE_REPLY, call, reply_data, reader_pc,
                   bytes_read, to_device, serial_in, device_mute,
                   produced, remaining, line, decoded_since>>
    /\ UNCHANGED <<codec_vars, facade_vars>>

\* return reply_data; stop_reader goes on to join the reader thread
Return(c) ==
    /\ pc[c] = "return"
    /\ pc' = [pc EXCEPT ![c] = IF call[c].op = "stop_reader" THEN "join" ELSE "idle"]
    /\ UNCHANGED <<_alive, _write_lock, _read_event, PRIMARE_REPLY, call, reply_data,
                   reader_pc, bytes_read, to_device, serial_in,
                   device_mute, produced, remaining, line, decoded_since>>
    /\ UNCHANGED <<codec_vars, facade_vars>>

\* self.thread_read.join() returns once the reader thread has ended
Join(c) ==
    /\ pc[c] = "join"
    /\ reader_pc = "done"
    /\ pc' = [pc EXCEPT ![c] = "stopped"]
    /\ UNCHANGED <<_alive, _write_lock, _read_event, PRIMARE_REPLY, call, reply_data,
                   reader_pc, bytes_read, to_device, serial_in,
                   device_mute, produced, remaining, line, decoded_since>>
    /\ UNCHANGED <<codec_vars, facade_vars>>

\* mutant of reader_goes_on: while True
reader_goes_on_forever == TRUE

\* the test of the outer loop of _primare_reader: while(self._alive)
reader_goes_on == _alive

\* _primare_reader: the test of the outer loop and the start of a read cycle
ReaderLoop ==
    /\ reader_pc = "loop"
    /\ IF reader_goes_on
       THEN reader_pc' = "read" /\ bytes_read' = <<>>
       ELSE reader_pc' = "done" /\ UNCHANGED bytes_read
    /\ UNCHANGED <<_alive, _write_lock, _read_event, PRIMARE_REPLY, pc, call,
                   reply_data, to_device, serial_in, device_mute,
                   produced, remaining, line, decoded_since>>
    /\ UNCHANGED <<codec_vars, facade_vars>>

\* c = self._device.read(1) with a byte: it is appended and the end of line
\* tested
ReaderReadByte ==
    /\ reader_pc = "read"
    /\ serial_in # <<>>
    /\ bytes_read' = Append(bytes_read, Head(serial_in))
    /\ serial_in' = Tail(serial_in)
    /\ reader_pc' = IF IsEol(bytes_read') THEN "decode" ELSE "read"
    /\ UNCHANGED <<_alive, _write_lock, _read_event, PRIMARE_REPLY, pc, call,
                   reply_data, to_device, device_mute, produced, remaining, line, decoded_since>>
    /\ UNCHANGED <<codec_vars, facade_vars>>

\* c = self._device.read(1) timing out with no byte: the inner loop is left
ReaderTimeout ==
    /\ reader_pc = "read"
    /\ serial_in = <<>>
    /\ reader_pc' = "decode"
    /\ UNCHANGED <<_alive, _write_lock, _read_event, PRIMARE_REPLY, pc, call,
                   reply_data, bytes_read, to_device, serial_in,
                   device_mute, produced, remaining, line, decoded_since>>
    /\ UNCHANGED <<codec_vars, facade_vars>>

\* if bytes_read: the cycle is decoded and stored in the reply table
ReaderDecode ==
    /\ reader_pc = "decode"
    /\ IF bytes_read # <<>>
       THEN /\ PRIMARE_REPLY' = Put(PRIMARE_REPLY, upper(variable_char(bytes_read)),
                                    reply_data_of(bytes_read))
            /\ decoded_since' = [c \in Callers |-> TRUE]
            /\ reader_pc' = "set"
       ELSE /\ reader_pc' = "loop"
            /\ UNCHANGED <<PRIMARE_REPLY, decoded_since>>
    /\ UNCHANGED <<_alive, _write_lock, _read_event, pc, call, reply_data,
                   bytes_read, to_device, serial_in, device_mute,
                   produced, remaining, line>>
    /\ UNCHANGED <<codec_vars, facade_vars>>

\* self._read_event.set() of the reader
ReaderEventSet ==
    /\ reader_pc = "set"
    /\ EventSetBy(NoThread, "")
    /\ reader_pc' = "unset"
    /\ UNCHANGED <<_alive, _write_lock, PRIMARE_REPLY, call, reply_data,
                   bytes_read, to_device, serial_in, device_mute,
                   produced, remaining, line, decoded_since>>
    /\ UNCHANGED <<codec_vars, facade_vars>>

\* self._read_event.clear() of the reader
ReaderEventClear ==
    /\ reader_pc = "unset"
    /\ _read_event' = FALSE
    /\ reader_pc' = "loop"
    /\ UNCHANGED <<_alive, _write_lock, PRIMARE_REPLY, pc, call, reply_data,
                   bytes_read, to_device, serial_in, device_mute,
                   produced, remaining, line, decoded_since>>
    /\ UNCHANGED <<codec_vars, facade_vars>>

\* what the amplifier answers to a command frame <STX> <command> <variable>
\* <value> <DLE> <ETX>, and its mute flag afterwards: a variable with the
\* top bit set is set to the value, mute (09) is toggled, any other variable
\* is reported with the value
DeviceAnswer(frame) ==
    LET variable == frame[3]
        value == frame[4]
    IN  IF variable >= 128
        THEN [payload |-> <<variable - 128, value>>,
              mute |-> IF variable - 128 = 9 THEN value = 1 ELSE device_mute]
        ELSE IF variable = 9
        THEN [payload |-> <<9, IF device_mute THEN 0 ELSE 1>>, mute |-> ~device_mute]
        ELSE [payload |-> <<variable, value>>, mute |-> device_mute]

\* the amplifier takes the next command frame and sends its reply frame,
\* whose bytes arrive back to back
DeviceReceive ==
    /\ to_device # <<>>
    /\ LET m == Head(to_device)
           answer == DeviceAnswer(m.frame)
       IN  /\ serial_in' = serial_in \o ReplyFrame(answer.payload)
           /\ device_mute' = answer.mute
           /\ produced' = IF call[m.by].id = m.id
                          THEN [produced EXCEPT ![m.by] = hexlify(Tail(answer.payload))]
                          ELSE produced
    /\ to_device' = Tail(to_device)
    /\ UNCHANGED <<_alive, _write_lock, _read_event, PRIMARE_REPLY, pc, call,
                   reply_data, reader_pc, bytes_read, remaining, line, decoded_since>>
    /\ UNCHANGED <<codec_vars, facade_vars>>

\* the bytes that may arrive at the serial port: <STX>, the variable 09 of
\* the reply table, a variable 05 the reply table does not hold, <DLE>, <ETX>
StreamBytes == {2, 9, 5, 16, 3}

\* the next byte on its way arrives at the serial port; read(1) times out
\* whenever the reader asks before it has arrived
LineArrive ==
    /\ line # <<>>
    /\ serial_in' = Append(serial_in, Head(line))
    /\ line' = Tail(line)
    /\ UNCHANGED <<_alive, _write_lock, _read_event, PRIMARE_REPLY, pc, call,
                   reply_data, reader_pc, bytes_read, to_device, device_mute,
                   produced, remaining, decoded_since>>
    /\ UNCHANGED <<codec_vars, facade_vars>>

CallerNext(c) ==
    \/ Invoke(c) \/ stop_reader(c) \/ Acquire(c) \/ Write(c) \/ WaitEvent(c)
    \/ ReadReply(c) \/ ClearReply(c) \/ SendEventSet(c) \/ SendEventClear(c)
    \/ Release(c) \/ Return(c) \/ Join(c)

ReaderNext ==
    \/ ReaderLoop \/ ReaderReadByte \/ ReaderTimeout \/ ReaderDecode
    \/ ReaderEventSet \/ ReaderEventClear

DeviceNext == DeviceReceive

Next == (\E c \in Callers : CallerNext(c)) \/ ReaderNext \/ DeviceNext

----------------------------------------------------------------------------
(* Specifications *)

CodecInit == CodecStart /\ FacadeOff /\ ThreadOff

SpecCodec == CodecInit /\ [][CodecNext]_vars

FacadeInit == CodecIdle /\ FacadeStart /\ ThreadOff

SpecFacade == FacadeInit /\ [][FacadeNext]_vars

Init == CodecIdle /\ FacadeOff /\ ThreadStart(MaxCommands, <<>>)

Spec == Init /\ [][Next]_vars

LiveInit == CodecIdle /\ FacadeOff /\ ThreadStart(MaxLiveCommands, <<>>)

\* the scheduler lets every thread that can take a step take one, and the
\* amplifier and the serial line go on working; no caller is bound to call
Fairness ==
    /\ WF_vars(ReaderNext)
    /\ WF_vars(DeviceNext)
    /\ \A c \in Callers :
          WF_vars(Acquire(c) \/ Write(c) \/ WaitEvent(c) \/ ReadReply(c)
                  \/ ClearReply(c) \/ SendEventSet(c) \/ SendEventClear(c)
                  \/ Release(c) \/ Return(c) \/ Join(c))

SpecLive == LiveInit /\ [][Next]_vars /\ Fairness

\* the reader on its own: no caller sends anything and any stream of bytes
\* arrives, at any pace
ReaderInit ==
    \E stream \in SeqsUpTo(StreamBytes, MaxStream) :
        CodecIdle /\ FacadeOff /\ ThreadStart(0, stream)

ReaderAloneNext == ReaderNext \/ LineArrive

SpecReader == ReaderInit /\ [][ReaderAloneNext]_vars


----------------------------------------------------------------------------
(* Claims about the frame codec (SpecCodec) *)

\* where the i-th payload byte starts in the bytes _write sends: after <STX>
\* and the direction byte, one place further for every <DLE> before it
OutPos(payload, i) == 2 + i + Cardinality({j \in 1..(i - 1) : payload[j] = 16})

\* every <DLE> of the payload is sent twice, at its place
DleDoubled(out, payload) ==
    \A i \in 1..Len(payload) :
        payload[i] = 16 =>
            /\ OutPos(payload, i) + 1 <= Len(out)
            /\ out[OutPos(payload, i)] = 16
            /\ out[OutPos(payload, i) + 1] = 16

\* the places of the adjacent pairs <DLE> <ETX> in a byte sequence
DleEtxAt(out) == {k \in 1..(Len(out) - 1) : out[k] = 16 /\ out[k + 1] = 3}

\* C2 (as claimed): a payload framed with the escaping of _write and read
\* back by the read cycle of _primare_reader comes out as the payload, its
\* first byte as the variable code and the rest as the data.
C2_RoundTrip ==
    (codec_phase = "decoded" /\ Len(codec_payload) >= 1)
        => /\ codec_variable_char \o codec_data = hexlify(codec_payload)
           /\ codec_wire = <<>>

\* C3 (as claimed): the bytes _write sends hold 0x10 0x10 wherever the
\* payload holds 0x10, and the pair 0x10 0x03 occurs exactly once, as the
\* last two bytes.
C3_OnlyTerminator ==
    codec_phase # "start"
        => /\ DleDoubled(codec_out, codec_payload)
           /\ DleEtxAt(codec_out) = {Len(codec_out) - 1}

\* C3 (amended): the bytes _write sends hold 0x10 0x10 wherever the payload
\* holds 0x10 and end with 0x10 0x03; the pair 0x10 0x03 occurs once more
\* for every 0x10 of the payload that is directly followed by 0x03 (the
\* second of the doubled bytes and the 0x03), and nowhere else.
C3_TerminatorAndEscapedPairs ==
    codec_phase # "start"
        => /\ DleDoubled(codec_out, codec_payload)
           /\ DleEtxAt(codec_out) =
                {Len(codec_out) - 1}
                \cup {OutPos(codec_payload, i) + 1 :
                        i \in {j \in 1..(Len(codec_payload) - 1) :
                                 codec_payload[j] = 16 /\ codec_payload[j + 1] = 3}}

\* C3 witness: a payload with a 0x10 directly followed by 0x03, and one with
\* a 0x10 that is not, has been written
C3_Witness ==
    /\ codec_phase = "written"
    /\ Len(codec_payload) = 3
    /\ codec_payload[1] = 16 /\ codec_payload[2] = 3 /\ codec_payload[3] = 16

----------------------------------------------------------------------------
(* Claims about the facade (SpecFacade) *)

\* round(p * 79 / 100) said without the code's arithmetic: the level whose
\* hundredfold lies within a half level of 79 p, the upper one at a tie
NearestLevel(p) ==
    CHOOSE t \in 0..VOLUME_LEVELS :
        100 * t - 50 <= VOLUME_LEVELS * p /\ VOLUME_LEVELS * p < 100 * t + 50

\* an operation called by name has returned
Done(name) == f_pc = "done" /\ f_op.name = name

\* C4: volume_set(p) returns success and caches p exactly when the reply is
\* not empty and its hex value is round(p*79/100) or one less; otherwise it
\* returns failure and the cached volume is the one before the call.
C4_VolumeSetAcceptance ==
    Done("volume_set") =>
        LET p == f_op.arg
            accepted == /\ f_reply # <<>>
                        /\ int16(f_reply) \in {NearestLevel(p), NearestLevel(p) - 1}
        IN  IF accepted
            THEN f_ret = "True" /\ volume_get = p
            ELSE f_ret = "False" /\ volume_get = f_before.volume

\* C4 witness: volume_set(50) answered with 27 (39, one below the level 40)
\* over another cached volume is accepted and caches 50
C4_Witness ==
    /\ Done("volume_set")
    /\ f_op.arg = 50
    /\ f_reply = <<"2", "7">>
    /\ f_before.volume # 50
    /\ f_ret = "True"
    /\ volume_get = 50

\* a reply that does not confirm the operation that has returned
NotConfirmed ==
    \/ Done("mute_set") /\ f_reply # mute_value(f_op.arg)
    \/ Done("mute_toggle") /\ f_reply \notin {<<"0","0">>, <<"0","1">>}
    \/ Done("volume_set") /\ ~(/\ f_reply # <<>>
                               /\ int16(f_reply) \in {NearestLevel(f_op.arg),
                                                      NearestLevel(f_op.arg) - 1})

\* C8 (as claimed): after mute_set, mute_toggle or volume_set has failed on
\* an empty or non-confirming reply, the cached mute flag and volume are
\* those before the call.
C8_FailureKeepsCache ==
    NotConfirmed => /\ mute_get = f_before.mute
                    /\ volume_get = f_before.volume

\* C9 (as claimed): mute_set(m) returns True exactly when the reply is the
\* value asked for, '01' for m = true and '00' for m = false.
C9_MuteSetReturnsSuccess ==
    Done("mute_set") =>
        (f_ret = "True" <=> f_reply = (IF f_op.arg THEN <<"0","1">> ELSE <<"0","0">>))

\* the step is a mute_set or mute_toggle command
MuteCommandStep ==
    /\ Len(f_sent') = Len(f_sent) + 1
    /\ f_sent'[Len(f_sent')].variable \in {"mute_set", "mute_toggle"}

\* C10: mute_set(m) writes 02 57 89 xx 10 03 with xx = 01 for true and 00
\* for false; when the reply carries that value mute_get() returns m, and
\* mute_get() keeps its value in every step that is not a mute operation.
C10_MuteSetThenGet ==
    [][ /\ (f_pc = "idle" /\ f_op'.name = "mute_set") =>
              LET m == f_op'.arg
                  xx == IF m THEN 1 ELSE 0
              IN  /\ f_sent' = <<[variable |-> "mute_set",
                                  option |-> <<"0", IF m THEN "1" ELSE "0">>,
                                  frame |-> <<2, 87, 137, xx, 16, 3>>]>>
                  /\ (int16(f_reply') = xx /\ f_reply' # <<>>) => mute_get' = m
        /\ ~MuteCommandStep => mute_get' = mute_get
      ]_vars

\* C10 witness: mute_set(true) answered 01 has returned and mute_get() is true
C10_Witness ==
    /\ Done("mute_set")
    /\ f_op.arg = TRUE
    /\ f_reply = <<"0", "1">>
    /\ f_before.mute = FALSE
    /\ mute_get = TRUE

----------------------------------------------------------------------------
(* Claims about the threads (Spec, SpecLive) *)

\* a caller is between acquiring and releasing the write lock
InLock(c) ==
    pc[c] \in {"write", "wait", "blocked", "read", "clear", "set", "unset", "release"}

\* a caller is about to return from a _send_command that waits for a reply
Returning(c) == pc[c] = "return" /\ PRIMARE_CMD[call[c].variable].wait

\* C1: at most one caller is between acquiring and releasing the write lock,
\* and it is the one the lock records, so no frame is written between a
\* caller's write and its return.
C1_MutualExclusion ==
    /\ \A c, d \in Callers : (InLock(c) /\ InLock(d)) => c = d
    /\ \A c \in Callers : InLock(c) => _write_lock = c

\* C1 witness: one caller waits for its reply inside the lock while the
\* other has called _send_command and stands at the lock
C1_Witness ==
    \E c, d \in Callers : pc[c] = "blocked" /\ pc[d] = "lock"

\* C5 (as claimed): with one reply frame per command, in order, and nothing
\* unsolicited, a _send_command that waits returns the data of the reply
\* frame the amplifier produced for that very command.
C5_ReturnsOwnReply ==
    \A c \in Callers : Returning(c) => reply_data[c] = produced[c]

\* C6 (as claimed): the step of a waiting _send_command that clears the reply
\* table leaves the slot keyed by the first two characters of its reply
\* template empty.
C6_SlotCleared ==
    [][ \A c \in Callers :
            (pc[c] = "clear" /\ pc'[c] = "set") =>
                PRIMARE_REPLY'[Slice(PRIMARE_CMD[call[c].variable].reply, 0, 2)] = <<>>
      ]_vars

\* C7: once stop_reader has cleared the liveness flag, the reader leaves its
\* loop and ends.
C7_ReaderTerminates == (~_alive) ~> (reader_pc = "done")

\* C7 witness: the flag is cleared and the reader thread has ended
C7_Witness == ~_alive /\ reader_pc = "done"

----------------------------------------------------------------------------
(* Claims about startup and calibration (SpecFacade) *)

\* the percent of the mixer scale for a level of the amplifier:
\* round(level * 100 / VOLUME_LEVELS)
LevelToPercent(level) == (2 * level * MaxPercent + VOLUME_LEVELS) \div (2 * VOLUME_LEVELS)

\* _get_current_volume has just returned after both of its commands were
\* answered: the last command sent is volume_up and its reply is not empty
Calibrated ==
    /\ f_op.name = "__init__"
    /\ f_pc = "manufacturer_get"
    /\ f_sent[Len(f_sent)].variable = "volume_up"
    /\ f_reply # <<>>

\* C11 (as claimed): after a startup with no configured volume whose
\* volume_down and volume_up were both answered, the last with the hex value
\* of level L, volume_get() is the percent round(L * 100 / 79).
C11_CalibratedPercent ==
    (Calibrated /\ f_op.arg = None) =>
        volume_get = LevelToPercent(int16(f_reply))

\* C12 (as claimed): volume_get() is None or an integer in [0, 100] in
\* every reachable state.
C12_VolumeInRange ==
    volume_get = None \/ (volume_get >= 0 /\ volume_get <= MaxPercent)

\* a percent brought back into the mixer scale
Clamp(percent) == Max(0, Min(MaxPercent, percent))

\* C18 (as claimed): volume_up() / volume_down() return normally; with an
\* empty reply the cached volume is the one before the call, and with any
\* other reply it is the percent of the level one above / below the level of
\* the volume before the call, clamped to [0, 100].
C18_RelativeStep ==
    \A step \in {1, -1} :
        Done(IF step = 1 THEN "volume_up" ELSE "volume_down") =>
            /\ f_ret \notin {"AttributeError", "TypeError"}
            /\ f_reply = <<>> => volume_get = f_before.volume
            /\ f_reply # <<>> =>
                  volume_get =
                     Clamp(LevelToPercent(NearestLevel(Clamp(f_before.volume)) + step))

\* the names of the commands sent so far, in the order they were sent
SentNames == [i \in 1..Len(f_sent) |-> f_sent[i].variable]

\* the first commands of every startup and their options, after the start
\* of the reader thread
StartsAsClaimed ==
    /\ Len(f_sent) >= 3
    /\ f_sent[1] = ThreadStarted
    /\ f_sent[2] = Sent("verbose_set", <<"0", "1">>)
    /\ f_sent[3] = Sent("power_set", <<"0", "1">>)

\* every mute_set and volume_set of the startup carries the option claimed
OptionsAsClaimed ==
    \A i \in 1..Len(f_sent) :
        /\ f_sent[i].variable = "mute_set" => f_sent[i].option = <<"0", "0">>
        /\ f_sent[i].variable = "volume_set" =>
              /\ f_op.arg # None
              /\ f_sent[i].option = Fmt02X(NearestLevel(f_op.arg))
        /\ f_sent[i].variable = "input_set" => f_sent[i].option = Fmt02X(_source)

\* the four identification reads, in the order of _print_device_info
ReadsClaimed == <<"manufacturer_get", "modelname_get", "swversion_get",
                  "inputname_current_get">>

\* C15 (as claimed): the reader thread is started first, then verbose_set(01),
\* power_set(01), input_set(source) only if a source is configured,
\* mute_set(00), then volume_set(configured volume) or the pair volume_down,
\* volume_up, and the identification reads only after all of these.
C15_StartupOrder ==
    Done("__init__") =>
        /\ StartsAsClaimed
        /\ OptionsAsClaimed
        /\ \E volume \in {<<"volume_set">>, <<"volume_down", "volume_up">>} :
              SentNames = <<"thread_read.start", "verbose_set", "power_set">>
                          \o (IF _source # None THEN <<"input_set">> ELSE <<>>)
                          \o <<"mute_set">> \o volume \o ReadsClaimed

\* C15 (amended): as claimed, except that an input_set that was answered is
\* followed at once by a read of the current input name, and that volume_up
\* is sent only when volume_down was answered.
C15_StartupOrderWithInputName ==
    Done("__init__") =>
        /\ StartsAsClaimed
        /\ OptionsAsClaimed
        /\ \E input \in (IF _source # None
                         THEN {<<"input_set">>, <<"input_set", "inputname_current_get">>}
                         ELSE {<<>>}),
              volume \in {<<"volume_set">>, <<"volume_down">>,
                          <<"volume_down", "volume_up">>} :
              SentNames = <<"thread_read.start", "verbose_set", "power_set">>
                          \o input \o <<"mute_set">> \o volume \o ReadsClaimed

\* C15 witness: a construction with a source configured has returned after
\* input_set, the read of the input name, mute_set, calibration and the
\* four reads
C15_Witness ==
    /\ Done("__init__")
    /\ _source # None
    /\ Len(f_sent) = 12
    /\ f_sent[5].variable = "inputname_current_get"
    /\ f_sent[8].variable = "volume_up"

\* C19 (as claimed): whatever level the amplifier had, it has the same level
\* once _get_current_volume has returned, for every outcome of its replies.
C19_CalibrationNetZero ==
    (/\ f_op.name = "__init__"
     /\ f_pc = "manufacturer_get"
     /\ \E i \in 1..Len(f_sent) : f_sent[i].variable = "volume_down") =>
        \A level \in 0..VOLUME_LEVELS : DeviceLevelAfter(level, f_sent) = level

\* C20 (as claimed): startup sends volume_down / volume_up exactly when no
\* volume was configured; for every configured percent, 0 included, it sends
\* volume_set for that percent and neither volume_down nor volume_up.
C20_CalibrationIffUnconfigured ==
    Done("__init__") =>
        LET sent(name) == \E i \in 1..Len(f_sent) : f_sent[i].variable = name
        IN  IF f_op.arg = None
            THEN sent("volume_down") /\ ~sent("volume_set")
            ELSE /\ Sent("volume_set", Fmt02X(NearestLevel(f_op.arg)))
                        \in {f_sent[i] : i \in 1..Len(f_sent)}
                 /\ ~sent("volume_down")
                 /\ ~sent("volume_up")

----------------------------------------------------------------------------
(* Claims about the reader and the wait for a reply (Spec, SpecReader,
   SpecCodec) *)

\* a caller is sending a command that waits for its reply
Waits(c) == call[c] # NoCall /\ PRIMARE_CMD[call[c].variable].wait

\* a caller's wait for the reply of its command has returned
WaitReturned(c) ==
    /\ Waits(c)
    /\ pc[c] \in {"read", "clear", "set", "unset", "release", "return"}

\* C13 (as claimed): while the reader has decoded no frame since a caller
\* wrote a command that waits for its reply, the caller's wait has not
\* returned and the caller still holds the write lock.
C13_NoReplyNoReturn ==
    \A c \in Callers :
        (Waits(c) /\ ~decoded_since[c]) =>
            (~WaitReturned(c) /\ (pc[c] \in {"wait", "blocked"} => _write_lock = c))

\* the keys the reply table is defined with
KnownKeys == DOMAIN PRIMARE_REPLY_initial

\* C14 (as claimed): the step that decodes a complete frame whose variable
\* is not a key of the reply table leaves the table as it was, and the
\* reader goes on to its next read cycle.
C14_UnknownVariableDropped ==
    [][ (/\ reader_pc = "decode"
         /\ IsEol(bytes_read)
         /\ upper(variable_char(bytes_read)) \notin KnownKeys) =>
            (PRIMARE_REPLY' = PRIMARE_REPLY /\ reader_pc' = "loop")
      ]_vars

\* C16 (as claimed): the reader stores in the reply table and sets the event
\* only for bytes that end with <DLE> <ETX>; a read cycle ended by a timeout
\* changes neither.
C16_OnlyCompleteFrames ==
    [][ (PRIMARE_REPLY' # PRIMARE_REPLY \/ (~_read_event /\ _read_event')
         \/ (reader_pc = "decode" /\ reader_pc' = "set")) =>
            IsEol(bytes_read)
      ]_vars

\* C17 (as claimed): the read cycle ends only at the terminator of the
\* frame: what is decoded is the whole frame the amplifier sent.
C17_EndsAtTerminator ==
    codec_phase \in {"eol", "decoded"} => codec_bytes_read = ReplyFrame(codec_payload)

----------------------------------------------------------------------------
(* Claims about the wait for a reply and the shutdown (SpecLive) *)

\* C21 (as claimed): while the reader is running and the amplifier answers
\* every command, a _send_command that has written a command that waits for
\* its reply eventually returns, in every interleaving with the reader.
C21_NoLostWakeup ==
    \A c \in Callers :
        (pc[c] = "wait" /\ call[c].op = "send") ~> (pc[c] = "return" \/ ~_alive)

\* C22 (as claimed): once stop_reader has cleared the liveness flag, the wait
\* of its verbose_toggle completes and its join returns, in every
\* interleaving with the reader.
C22_StopReaderReturns ==
    \A c \in Callers :
        (call[c].op = "stop_reader" /\ pc[c] = "lock") ~> (pc[c] = "stopped")

============================================================================
